---- MODULE Spec2Model ----
(***************************************************************************)
(* show_sentences.py: a Streamlit script that loads a pickled table of     *)
(* annotated sentences (memoised by st.cache), reads three sidebar         *)
(* widgets, filters the table and renders it grouped by type.  The host    *)
(* re-executes the whole script on every user interaction; one action of   *)
(* this model is one complete execution of the script.                     *)
(***************************************************************************)
EXTENDS Integers, Sequences, FiniteSets, TLC

VARIABLES
    file,             \* the DataFrame pickled in outdir/merged.pkl
    cache,            \* st.cache's entry for load_data
    reads,            \* how many times outdir/merged.pkl has been opened
    started,          \* the session has executed the script at least once
    data,             \* data = load_data()
    slider,           \* the value of the "Chapter" slider widget
    chapter,          \* chapter = str(slider value)
    type_options,     \* the options of the "Type" multiselect
    type_,            \* the selection of the "Type" multiselect
    unique_labels,    \* the options of the "Included labels" multiselect
    included_labels,  \* the selection of the "Included labels" multiselect
    filtered_data,    \* data[mask]
    output            \* what the pass emitted: st.subheader / st.write calls

vars == <<file, cache, reads, started, data, slider, chapter, type_options,
          type_, unique_labels, included_labels, filtered_data, output>>

----------------------------------------------------------------------------
(* Bounds of the model and constants of the program.                       *)

MaxRows == 2          \* rows in the pickled table
SliderMin == 1        \* st.sidebar.slider("Chapter", 1, 26)
SliderMax == 26

----------------------------------------------------------------------------
(* Values.  A chapter cell is a Python int or a Python str; a str is the   *)
(* sequence of its characters.                                             *)

IntCell(n) == [kind |-> "int", n |-> n, s |-> <<>>]
StrCell(s) == [kind |-> "str", n |-> 0, s |-> s]

Digits == <<"0", "1", "2", "3", "4", "5", "6", "7", "8", "9">>

RECURSIVE str(_)
\* Python's str() of a non-negative int: its decimal digits.
str(n) == IF n < 10 THEN <<Digits[n + 1]>>
          ELSE str(n \div 10) \o <<Digits[(n % 10) + 1]>>

\* Python's == between a cell of the chapter column and a str: an int never
\* equals a str, two strs are equal when their characters are.
PyEqStr(cell, s) == cell.kind = "str" /\ cell.s = s

\* The values of the type column in ascending order of Python's str "<".
TypeValues == <<"A", "B">>

TypeRank(t) == CHOOSE i \in 1..Len(TypeValues) : TypeValues[i] = t

Range(s) == {s[i] : i \in 1..Len(s)}

Rows(df) == {df[i] : i \in 1..Len(df)}

\* The columns of the table: the five the script uses, and "other" for any
\* further column the merged table carries.
Columns == {"chapter", "type", "sentence_id", "text", "annotations", "other"}

\* A row of the table.  idx is its index label, na the set of columns in
\* which the row holds a missing value (NaN/None).
Row(ch, ty, sid, tx, ann, na) ==
    [idx |-> 0, chapter |-> ch, type |-> ty, sentence_id |-> sid, text |-> tx,
     annotations |-> ann, na |-> na]

\* The table pickled from the given rows: row i carries index label i.
Table(rows) == [i \in 1..Len(rows) |-> [rows[i] EXCEPT !.idx = i]]

\* Every table of at most MaxRows rows drawn from pool.
Tables(pool) == {Table(rows) : rows \in UNION {[1..n -> pool] : n \in 0..MaxRows}}

----------------------------------------------------------------------------
(* load_data, lines 6-12.                                                  *)

\* As dropna, looking only at the five columns the script uses.
dropna_required(df) == SelectSeq(df, LAMBDA r : r.na \subseteq {"other"})

\* DataFrame.dropna(): keeps, in order and with their index labels, the rows
\* that hold no missing value in any column.
dropna(df) == SelectSeq(df, LAMBDA r : r.na = {})

NoEntry == [hit |-> FALSE, value |-> <<>>]

\* As load_data, without @st.cache(): every call opens the file.
load_data_uncached(c, f, n) ==
    [cache |-> [hit |-> TRUE, value |-> dropna(f)],
     reads |-> n + 1, value |-> dropna(f)]

\* @st.cache() def load_data(): the body runs (and opens the file) only when
\* the cache holds no entry for the function; c is the cache entry, f the
\* file's table, n the number of reads so far.
load_data(c, f, n) ==
    IF c.hit
    THEN [cache |-> c, reads |-> n, value |-> c.value]
    ELSE [cache |-> [hit |-> TRUE, value |-> dropna(f)],
          reads |-> n + 1, value |-> dropna(f)]

----------------------------------------------------------------------------
(* The widgets' options, lines 17-30.                                      *)

\* data.type.unique(): the distinct values of the type column.
type_unique(df) == {df[i].type : i \in 1..Len(df)}

\* list(set([label for ll in data.annotations for label in ll]))
labels_of(df) == UNION {Range(df[i].annotations) : i \in 1..Len(df)}

----------------------------------------------------------------------------
(* filtered_data, lines 34-40.                                             *)

\* data.chapter == chapter
chapter_mask(df, ch) == [i \in 1..Len(df) |-> PyEqStr(df[i].chapter, ch)]

\* data.type.isin(type_)
type_mask(df, ts) == [i \in 1..Len(df) |-> df[i].type \in ts]

\* As any_label_in, with all() for any().
all_labels_in(x, ls) == \A label \in ls : \E j \in 1..Len(x) : x[j] = label

\* As any_label_in, testing that no label of x is outside the selection.
labels_subset(x, ls) == \A j \in 1..Len(x) : x[j] \in ls

\* lambda x: any(label in x for label in included_labels)
any_label_in(x, ls) == \E label \in ls : \E j \in 1..Len(x) : x[j] = label

\* data.annotations.apply(...)
label_mask(df, ls) == [i \in 1..Len(df) |-> any_label_in(df[i].annotations, ls)]

\* As logical_and_reduce, with np.logical_or.
logical_or_reduce(m1, m2, m3) == [i \in 1..Len(m1) |-> m1[i] \/ m2[i] \/ m3[i]]

\* np.logical_and.reduce([m1, m2, m3]): the element-wise conjunction.
logical_and_reduce(m1, m2, m3) == [i \in 1..Len(m1) |-> m1[i] /\ m2[i] /\ m3[i]]

RECURSIVE take(_, _, _)
\* df[mask] from position i on: the rows whose mask is True, in order.
take(df, mask, i) ==
    IF i > Len(df) THEN <<>>
    ELSE (IF mask[i] THEN <<df[i]>> ELSE <<>>) \o take(df, mask, i + 1)

filter(df, ch, ts, ls) ==
    take(df,
         logical_and_reduce(chapter_mask(df, ch), type_mask(df, ts),
                            label_mask(df, ls)),
         1)

----------------------------------------------------------------------------
(* The render loop, lines 42-48.                                           *)

Perms(n) == {p \in [1..n -> 1..n] : \A i, j \in 1..n : p[i] = p[j] => i = j}

\* As sort_values, leaving the rows in the order of the view.
not_sorted(df) == {df}

\* DataFrame.sort_values("sentence_id"): the default kind is quicksort, which
\* is not stable, so rows of equal sentence_id come out in any order.
sort_values(df) ==
    {[i \in 1..Len(df) |-> df[p[i]]] : p \in
        {q \in Perms(Len(df)) :
            \A i \in 1..Len(df) - 1 :
                df[q[i]].sentence_id <= df[q[i + 1]].sentence_id}}

RECURSIVE first_seen(_, _)
first_seen(df, i) ==
    IF i > Len(df) THEN <<>>
    ELSE (IF \E j \in 1..(i - 1) : df[j].type = df[i].type
          THEN <<>> ELSE <<df[i].type>>) \o first_seen(df, i + 1)

\* As group_keys, with groupby(sort=False): the keys in order of appearance.
group_keys_unsorted(df) == first_seen(df, 1)

\* groupby("type") sorts the group keys (sort=True): the distinct types of df
\* in ascending order.
group_keys(df) == SelectSeq(TypeValues, LAMBDA t : \E i \in 1..Len(df) : df[i].type = t)

\* The group of key t: the rows of that type, in df's order.
group(df, t) == SelectSeq(df, LAMBDA r : r.type = t)

RECURSIVE join(_)
\* ", ".join(annotations): the pieces of the resulting string.
join(x) == IF Len(x) = 0 THEN <<>>
           ELSE IF Len(x) = 1 THEN <<x[1]>>
           ELSE <<x[1], ", ">> \o join(Tail(x))

\* st.subheader(type_)
subheader(t) ==
    [kind |-> "subheader", head |-> t, bold |-> <<>>, body |-> "", of |-> 0]

\* st.write(f"**{', '.join(sentence.annotations)}**\n {sentence.text}"); of is
\* the index label iterrows() yields with the row (the script's "_"), kept
\* to tell which row a block shows.
write(sentence) ==
    [kind |-> "write", head |-> "", bold |-> join(sentence.annotations),
     body |-> sentence.text, of |-> sentence.idx]

\* As write_rows, after drop_duplicates("sentence_id").
write_rows_dedup(subdf) ==
    LET kept == SelectSeq(subdf, LAMBDA r :
                    \A q \in Rows(subdf) :
                        q.sentence_id = r.sentence_id => q.idx >= r.idx)
    IN  [i \in 1..Len(kept) |-> write(kept[i])]

\* for _, sentence in subdf.iterrows(): st.write(...)
write_rows(subdf) == [i \in 1..Len(subdf) |-> write(subdf[i])]

RECURSIVE render_groups(_, _)
\* for type_, subdf in sorted_df.groupby("type"): subheader, then the rows.
render_groups(keys, df) ==
    IF keys = <<>> THEN <<>>
    ELSE <<subheader(Head(keys))>> \o write_rows(group(df, Head(keys)))
         \o render_groups(Tail(keys), df)

render(df) == render_groups(group_keys(df), df)

----------------------------------------------------------------------------
(* One execution of the script, lines 14-48, with the widgets holding the  *)
(* slider value sl and the selections ts and ls (a multiselect returns its *)
(* default, the whole option list, until the user has changed it).         *)

\* As Pass, with the label options taken from the rows of the selected
\* chapter instead of the whole table.
PassLabelsOfChapter(sl, ts, ls, fresh) ==
    LET ld == load_data(cache, file, reads)
        d  == ld.value
        ch == str(sl)
        to == type_unique(d)
        ty == IF fresh THEN to ELSE ts
        lo == labels_of(take(d, chapter_mask(d, ch), 1))
        il == IF fresh THEN lo ELSE ls
        fd == filter(d, ch, ty, il)
    IN  /\ cache' = ld.cache
        /\ reads' = ld.reads
        /\ data' = d
        /\ slider' = sl
        /\ chapter' = ch
        /\ type_options' = to
        /\ type_' = ty
        /\ unique_labels' = lo
        /\ included_labels' = il
        /\ filtered_data' = fd
        /\ \E sorted \in sort_values(fd) : output' = render(sorted)
        /\ started' = TRUE
        /\ UNCHANGED file

Pass(sl, ts, ls, fresh) ==
    LET ld == load_data(cache, file, reads)
        d  == ld.value
        ch == str(sl)
        to == type_unique(d)
        ty == IF fresh THEN to ELSE ts
        lo == labels_of(d)
        il == IF fresh THEN lo ELSE ls
        fd == filter(d, ch, ty, il)
    IN  /\ cache' = ld.cache
        /\ reads' = ld.reads
        /\ data' = d
        /\ slider' = sl
        /\ chapter' = ch
        /\ type_options' = to
        /\ type_' = ty
        /\ unique_labels' = lo
        /\ included_labels' = il
        /\ filtered_data' = fd
        /\ \E sorted \in sort_values(fd) : output' = render(sorted)
        /\ started' = TRUE
        /\ UNCHANGED file

\* The session opens: the script runs with every widget at its default.
Start == ~started /\ Pass(SliderMin, {}, {}, TRUE)

\* The user moves the "Chapter" slider to c.
MoveSlider(c) ==
    started /\ c # slider /\ Pass(c, type_, included_labels, FALSE)

\* The user changes the "Type" selection to S.
SelectTypes(S) ==
    started /\ S # type_ /\ Pass(slider, S, included_labels, FALSE)

\* The user changes the "Included labels" selection to S.
SelectLabels(S) ==
    started /\ S # included_labels /\ Pass(slider, type_, S, FALSE)

\* The user asks for a rerun without touching a widget.
Rerun == started /\ Pass(slider, type_, included_labels, FALSE)

Next ==
    \/ Start
    \/ \E c \in SliderMin..SliderMax : MoveSlider(c)
    \/ \E S \in SUBSET type_options : SelectTypes(S)
    \/ \E S \in SUBSET unique_labels : SelectLabels(S)
    \/ Rerun

\* Before the first execution: nothing loaded, nothing shown.
InitOver(pool) ==
    /\ file \in Tables(pool)
    /\ cache = NoEntry
    /\ reads = 0
    /\ started = FALSE
    /\ data = <<>>
    /\ slider = SliderMin
    /\ chapter = <<>>
    /\ type_options = {}
    /\ type_ = {}
    /\ unique_labels = {}
    /\ included_labels = {}
    /\ filtered_data = <<>>
    /\ output = <<>>

----------------------------------------------------------------------------
(* The tables the checks run over.                                         *)

\* Complete rows that differ in what the filter reads: rows of chapter "1"
\* of either type with no, one or two annotations, a row whose chapter is the
\* int 1, and a row of chapter "12".
FilterPool ==
    {Row(StrCell(<<"1">>), ty, 1, "Hi", ann, {}) :
        ty \in {"A", "B"},
        ann \in {<<>>, <<"greeting">>, <<"greeting", "farewell">>}}
    \cup {Row(IntCell(1), "A", 1, "Hi", <<"greeting">>, {}),
          Row(StrCell(<<"1", "2">>), "B", 1, "Bye", <<"farewell">>, {})}

\* Two complete rows, and rows that miss the value of one column or of two.
\* (The value written for a column in na is never read: dropna discards the
\* row.)
LoadPool ==
    {Row(StrCell(<<"1">>), "A", 1, "Hi", <<"greeting">>, {}),
     Row(StrCell(<<"1">>), "B", 2, "Bye", <<"farewell">>, {})}
    \cup {Row(StrCell(<<"1">>), "A", 1, "Hi", <<"greeting">>, {c}) : c \in Columns}
    \cup {Row(StrCell(<<"1">>), "A", 1, "Hi", <<"greeting">>, {"text", "other"})}

\* Complete rows of chapter "1" that differ in what the render loop reads:
\* the type, the sentence_id, and the text with its annotations.
RenderPool ==
    {Row(StrCell(<<"1">>), ty, sid, b[1], b[2], {}) :
        ty \in {"A", "B"},
        sid \in {1, 2},
        b \in {<<"Hi", <<"greeting">>>>, <<"Bye", <<"farewell", "greeting">>>>}}

Init == InitOver(FilterPool)

Spec == Init /\ [][Next]_vars

InitLoad == InitOver(LoadPool)

SpecLoad == InitLoad /\ [][Next]_vars

InitRender == InitOver(RenderPool)

SpecRender == InitRender /\ [][Next]_vars

----------------------------------------------------------------------------
(* Properties of the filter, checked under Spec.                           *)

LabelSet(r) == {r.annotations[j] : j \in 1..Len(r.annotations)}

\* The view holds rows of the table only, each at most once.
ViewOfTable ==
    /\ Rows(filtered_data) \subseteq Rows(data)
    /\ \A j, k \in 1..Len(filtered_data) :
           filtered_data[j].idx = filtered_data[k].idx => j = k

\* C1: after every pass the filtered view holds exactly the rows of the
\* table whose chapter equals the selected chapter (the script's chapter
\* value), whose type is among the selected types and which carry at least
\* one selected label; no other row, and none of these missing.
C1_FilterExact ==
    started =>
        /\ ViewOfTable
        /\ \A r \in Rows(data) :
               r \in Rows(filtered_data) <=>
                   /\ r.chapter = StrCell(chapter)
                   /\ r.type \in type_
                   /\ LabelSet(r) \cap included_labels # {}

\* C1's case: a selection narrower than the defaults that keeps one row and
\* rejects another.
C1_Witness ==
    /\ started
    /\ type_ # type_options
    /\ included_labels # unique_labels
    /\ Len(filtered_data) >= 1
    /\ Len(filtered_data) < Len(data)

\* Both multiselects hold their default, every option.
AtDefaults ==
    /\ started
    /\ type_ = {r.type : r \in Rows(data)}
    /\ included_labels = UNION {LabelSet(r) : r \in Rows(data)}

\* C2 as stated: with both multiselects at their default the view is exactly
\* the rows whose chapter matches, whatever their type and annotations.
C2_DefaultIsMaximal ==
    AtDefaults =>
        Rows(filtered_data) = {r \in Rows(data) : r.chapter = StrCell(chapter)}

\* C2, amended: with both multiselects at their default the view is exactly
\* the rows whose chapter matches and whose annotations are not empty.
C2_DefaultKeepsAnnotated ==
    AtDefaults =>
        /\ ViewOfTable
        /\ Rows(filtered_data) =
               {r \in Rows(data) :
                   r.chapter = StrCell(chapter) /\ r.annotations # <<>>}

\* C2's case: at the defaults, a row of the chapter is in the view while
\* another row of the chapter, without annotations, is not.
C2_Witness ==
    /\ AtDefaults
    /\ Len(filtered_data) >= 1
    /\ \E r \in Rows(data) :
           r.chapter = StrCell(chapter) /\ r.annotations = <<>>

\* C3: a row without annotations is in no filtered view, whatever the
\* chapter, the types and the labels selected.
C3_EmptyAnnotationsExcluded ==
    started => \A j \in 1..Len(filtered_data) : filtered_data[j].annotations # <<>>

\* C3's case: a row without annotations passes the chapter and the type
\* condition while no label at all is selected.
C3_Witness ==
    /\ started
    /\ unique_labels # {}
    /\ included_labels = {}
    /\ \E r \in Rows(data) :
           /\ r.annotations = <<>>
           /\ r.chapter = StrCell(chapter)
           /\ r.type \in type_

DigitValue(ch) == (CHOOSE i \in 1..10 : Digits[i] = ch) - 1

RECURSIVE IntOf(_)
\* The number a decimal numeral denotes.
IntOf(s) == IF s = <<>> THEN 0
            ELSE 10 * IntOf(SubSeq(s, 1, Len(s) - 1)) + DigitValue(s[Len(s)])

\* The chapter a cell denotes, stored as an int or as a str.
ChapterOf(cell) == IF cell.kind = "int" THEN cell.n ELSE IntOf(cell.s)

\* C8: a row passes the chapter condition exactly when its chapter denotes
\* the slider's chapter, be the cell an int or a str.
C8_ChapterConsistent ==
    started =>
        \A i \in 1..Len(data) :
            chapter_mask(data, chapter)[i] <=> ChapterOf(data[i].chapter) = slider

\* The labels occurring anywhere in the loaded table.
AllLabels == {l \in {"greeting", "farewell"} :
                \E i \in 1..Len(data) : \E j \in 1..Len(data[i].annotations) :
                    data[i].annotations[j] = l}

\* C9: the options of the label selector are always the labels of the whole
\* loaded table, its selection starts as all of them, and no interaction
\* takes a label off the options.
C9_LabelOptionsFromFullTable ==
    [][/\ started' => unique_labels' = AllLabels'
       /\ (~started /\ started') => included_labels' = unique_labels'
       /\ started => unique_labels \subseteq unique_labels']_vars

\* C9's case: after the chapter, the types and the labels were narrowed, the
\* view holds fewer labels than the selector offers.
C9_Witness ==
    /\ started
    /\ slider # SliderMin
    /\ type_ # type_options
    /\ included_labels # unique_labels
    /\ Len(filtered_data) >= 1
    /\ UNION {LabelSet(r) : r \in Rows(filtered_data)} # unique_labels

----------------------------------------------------------------------------
(* Properties of the load, checked under SpecLoad.                         *)

Required == {"chapter", "type", "sentence_id", "text", "annotations"}

\* The loaded table keeps the order of the file and repeats no row.
InFileOrder ==
    \A j, k \in 1..Len(data) : j < k => data[j].idx < data[k].idx

\* C4 as stated: the loaded table holds exactly the rows of the file in
\* which none of chapter, type, sentence_id, text, annotations is missing.
C4_RequiredOnly ==
    started =>
        Rows(data) = {r \in Rows(file) : r.na \cap Required = {}}

\* C4, amended: the loaded table holds exactly the rows of the file in which
\* no column at all is missing, unchanged and in the file's order.
C4_DropsAnyMissing ==
    started =>
        /\ Rows(data) = {r \in Rows(file) : \A c \in Columns : c \notin r.na}
        /\ InFileOrder

\* C4's case: the file holds a row that misses only a column the script
\* does not use, next to a row that is kept.
C4_Witness ==
    /\ started
    /\ Len(data) >= 1
    /\ \E r \in Rows(file) : r.na = {"other"}

\* C5: the file is opened by the first pass only; every later pass gets the
\* table of the first pass, unchanged.
C5_LoadedOnce ==
    [][/\ started' => (reads' = 1 /\ cache'.hit /\ data' = cache'.value)
       /\ started => (reads' = reads /\ cache' = cache /\ data' = data)]_vars

\* C5's case: passes after the first have run over a table with rows, with
\* a view that left some of them out.
C5_Witness ==
    /\ started
    /\ slider # SliderMin
    /\ type_ # type_options
    /\ reads = 1
    /\ Len(data) = 2

----------------------------------------------------------------------------
(* Properties of the render loop, checked under SpecRender.                *)

Heads == {k \in 1..Len(output) : output[k].kind = "subheader"}

Blocks == {k \in 1..Len(output) : output[k].kind = "write"}

\* The heading a block stands under: the last one before it.
HeadsBefore(k) == {h \in Heads : h < k}

HeadAbove(k) == CHOOSE h \in HeadsBefore(k) : \A g \in HeadsBefore(k) : g <= h

\* C6: the headings come in strictly ascending order of type, one for each
\* type of the view, and every block stands under the heading of its row's
\* type.
C6_GroupsAscending ==
    started =>
        /\ \A h, g \in Heads :
               h < g => TypeRank(output[h].head) < TypeRank(output[g].head)
        /\ {output[h].head : h \in Heads} = {r.type : r \in Rows(filtered_data)}
        /\ \A k \in Blocks :
               /\ HeadsBefore(k) # {}
               /\ \A r \in Rows(filtered_data) :
                      r.idx = output[k].of => output[HeadAbove(k)].head = r.type

\* C6's case: the view holds a row of type "B" before a row of type "A".
C6_Witness ==
    /\ started
    /\ Cardinality(Heads) = 2
    /\ Len(filtered_data) = 2
    /\ filtered_data[1].type = "B"
    /\ filtered_data[2].type = "A"

\* C7: two blocks that follow each other under one heading show rows of
\* non-decreasing sentence_id.
C7_GroupOrderedBySentenceId ==
    started =>
        \A k \in Blocks :
            (k + 1) \in Blocks =>
                \A r, q \in Rows(filtered_data) :
                    (r.idx = output[k].of /\ q.idx = output[k + 1].of)
                        => r.sentence_id <= q.sentence_id

\* C7's case: two rows of one type stand in the view in descending
\* sentence_id order.
C7_Witness ==
    /\ started
    /\ Len(filtered_data) = 2
    /\ filtered_data[1].type = filtered_data[2].type
    /\ filtered_data[1].sentence_id > filtered_data[2].sentence_id
    /\ Cardinality(Blocks) = 2

\* The pieces of a block's bold line are the annotations in stored order
\* with ", " between them.
JoinedFrom(bold, ann) ==
    /\ Len(bold) = IF Len(ann) = 0 THEN 0 ELSE 2 * Len(ann) - 1
    /\ \A j \in 1..Len(ann) : bold[2 * j - 1] = ann[j]
    /\ \A j \in 1..(Len(ann) - 1) : bold[2 * j] = ", "

\* C10: the blocks and the rows of the view correspond one to one, each
\* block showing its row's annotations joined with ", " and its text; an
\* empty view emits nothing.
C10_OneBlockPerRow ==
    started =>
        /\ Cardinality(Blocks) = Len(filtered_data)
        /\ {output[k].of : k \in Blocks} = {r.idx : r \in Rows(filtered_data)}
        /\ \A k \in Blocks : \A r \in Rows(filtered_data) :
               r.idx = output[k].of =>
                   /\ output[k].body = r.text
                   /\ JoinedFrom(output[k].bold, r.annotations)
        /\ filtered_data = <<>> => output = <<>>

\* C10's case: the view holds two rows of one type and one sentence_id, one
\* of them with two annotations.
C10_Witness ==
    /\ started
    /\ Len(filtered_data) = 2
    /\ filtered_data[1].type = filtered_data[2].type
    /\ filtered_data[1].sentence_id = filtered_data[2].sentence_id
    /\ Len(filtered_data[1].annotations) = 2
    /\ Len(filtered_data[2].annotations) = 1
    /\ Cardinality(Blocks) = 2

====
